---- MODULE Spec2Model ----
(***************************************************************************)
(* LLVM source-based coverage aggregation of buttercup's CoverageRunner    *)
(* (fuzzer/src/buttercup/fuzzing_infra/coverage_runner.py).                *)
(*                                                                         *)
(* The aggregator walks a coverage export document: for every export       *)
(* object it builds the expansion map and the coordinate index, then for   *)
(* every function it resolves the function's regions into a total and a    *)
(* covered line set, following macro expansions recursively through a      *)
(* per-object cache.  The Python call stack of _process_regions and        *)
(* _process_expansion_lines is the variable stack; one step handles one    *)
(* region of the innermost active call.                                    *)
(*                                                                         *)
(* Python lists are sequences (index k of the source is index k+1 here),   *)
(* dicts with string keys are records (a missing key is a missing field),  *)
(* other dicts are functions.                                              *)
(*                                                                         *)
(* The module also holds the Redis-backed RedisSet and RedisBoolFlag of    *)
(* common/src/buttercup/common/sets.py: the variable redis is the server's *)
(* keyspace and every method is one step on it.                            *)
(***************************************************************************)
EXTENDS Integers, Sequences, FiniteSets, TLC

VARIABLES
    coverage_data,          \* the export document handed to _process_function_coverage
    language,               \* self.language
    cxxfilt,                \* what cxxfilt.demangle does on each name
    pc,                     \* position of _process_function_coverage
    obj_idx,                \* index into coverage_data["data"]
    func_idx,               \* index into export_obj["functions"]
    name,                   \* the (demangled) name of the current function
    expansion_map,          \* ExpansionKey -> target_regions, per export object
    coord_to_filenames,     \* RegionCoords -> list of filenames, per export object
    expansion_lines_cache,  \* ExpansionKey -> CachedExpansionLines, per export object
    stack,                  \* active calls: _process_regions, then _process_expansion_lines
    visited,                \* the visited set shared by one chain of _process_expansion_lines
    function_coverage,      \* the list being returned
    redis,                  \* the keyspace of the Redis server: key -> value
    result                  \* the last call of a RedisSet or RedisBoolFlag method

coverage_vars == <<coverage_data, language, cxxfilt, pc, obj_idx, func_idx, name,
                   expansion_map, coord_to_filenames, expansion_lines_cache, stack,
                   visited, function_coverage>>
redis_vars == <<redis, result>>
vars == <<coverage_vars, redis_vars>>

----------------------------------------------------------------------------
(* Region kinds *)

REGION_KIND_CODE == 0
REGION_KIND_EXPANSION == 1
REGION_KIND_SKIPPED == 2
REGION_KIND_GAP == 3
REGION_KIND_BRANCH == 4
REGION_KIND_MCDC_DECISION == 5
REGION_KIND_MCDC_BRANCH == 6

NonCodeKinds ==
    {REGION_KIND_SKIPPED, REGION_KIND_GAP, REGION_KIND_BRANCH,
     REGION_KIND_MCDC_DECISION, REGION_KIND_MCDC_BRANCH}

----------------------------------------------------------------------------
(* Python helpers *)

\* the empty dict
EmptyDict == [k \in {} |-> 0]

\* d.get(k, default)
Get(d, k, default) == IF k \in DOMAIN d THEN d[k] ELSE default

\* d[k] = v
Put(d, k, v) == [x \in DOMAIN d \cup {k} |-> IF x = k THEN v ELSE d[x]]

\* set(list)
ToSet(s) == {s[j] : j \in 1..Len(s)}

Min(S) == CHOOSE x \in S : \A y \in S : x <= y

----------------------------------------------------------------------------
(* Types *)

RegionCoords(line_start, col_start, line_end, col_end) ==
    <<line_start, col_start, line_end, col_end>>

\* ExpansionKey.from_coords
ExpansionKeyFromCoords(filename, coords) ==
    <<filename, coords[1], coords[2], coords[3], coords[4]>>

CachedExpansionLines(total, covered) ==
    [total_lines |-> total, covered_lines |-> covered]

CoveredFunction(names, total, covered, paths) ==
    [names |-> names, total_lines |-> total, covered_lines |-> covered,
     function_paths |-> paths]

----------------------------------------------------------------------------
(* _add_region_lines: the two sets after adding a code region *)

\* range(line_start, line_end) for the total set: the last line is lost
AddRegionLines_HalfOpenTotal(region, total_lines, covered_lines) ==
    LET lines == region[1]..region[3]
    IN  [total_lines |-> total_lines \cup (region[1]..(region[3] - 1)),
         covered_lines |-> IF region[5] > 0 THEN covered_lines \cup lines
                           ELSE covered_lines]

\* execution_count >= 0: a region that never ran counts as covered
AddRegionLines_CoversUnexecuted(region, total_lines, covered_lines) ==
    LET lines == region[1]..region[3]
    IN  [total_lines |-> total_lines \cup lines,
         covered_lines |-> IF region[5] >= 0 THEN covered_lines \cup lines
                           ELSE covered_lines]

\* the sets are assigned instead of updated: earlier regions are lost
AddRegionLines_Replaces(region, total_lines, covered_lines) ==
    LET lines == region[1]..region[3]
    IN  [total_lines |-> lines,
         covered_lines |-> IF region[5] > 0 THEN lines ELSE covered_lines]

AddRegionLines(region, total_lines, covered_lines) ==
    LET line_start == region[1]
        line_end == region[3]
        execution_count == region[5]
        lines == line_start..line_end
    IN  [total_lines |-> total_lines \cup lines,
         covered_lines |-> IF execution_count > 0
                           THEN covered_lines \cup lines
                           ELSE covered_lines]

\* region[6] read for the kind: the expanded file id
RegionKind_WrongField(region) ==
    IF Len(region) > 7 THEN region[7] ELSE REGION_KIND_CODE

\* a region without the kind field defaults to a skipped region
RegionKind_DefaultSkipped(region) ==
    IF Len(region) > 7 THEN region[8] ELSE REGION_KIND_SKIPPED

\* region[7] if len(region) > 7 else REGION_KIND_CODE
RegionKind(region) ==
    IF Len(region) > 7 THEN region[8] ELSE REGION_KIND_CODE

----------------------------------------------------------------------------
(* _build_expansion_coverage_map *)

NoMaps == [expansion_map |-> EmptyDict, coord_to_filenames |-> EmptyDict]

HasFiveFields(region) == Len(region) >= 5

\* the regions with fewer than 5 fields are dropped when the map is built
TargetRegions_Filtered(expansion) ==
    SelectSeq(Get(expansion, "target_regions", <<>>), HasFiveFields)

\* expansion.get("target_regions", [])
TargetRegions(expansion) == Get(expansion, "target_regions", <<>>)

\* break instead of continue: an entry with fewer than 4 coordinates ends
\* the loop over the file's expansions
RECURSIVE IndexExpansions_StopsAtMalformed(_, _, _, _)
IndexExpansions_StopsAtMalformed(filename, expansions, j, maps) ==
    IF j > Len(expansions) THEN maps
    ELSE
      LET source_region == Get(expansions[j], "source_region", <<>>)
      IN  IF Len(source_region) < 4 THEN maps
          ELSE
            LET coords == RegionCoords(source_region[1], source_region[2],
                                       source_region[3], source_region[4])
                listed == Get(maps.coord_to_filenames, coords, <<>>)
            IN  IndexExpansions_StopsAtMalformed(filename, expansions, j + 1,
                  [expansion_map |->
                       Put(maps.expansion_map, ExpansionKeyFromCoords(filename, coords),
                           Get(expansions[j], "target_regions", <<>>)),
                   coord_to_filenames |->
                       Put(maps.coord_to_filenames, coords, Append(listed, filename))])

\* the first entry of a key is kept: a later entry with the same filename and
\* coordinates is listed in the index and leaves the map alone
RECURSIVE IndexExpansions_KeepsFirst(_, _, _, _)
IndexExpansions_KeepsFirst(filename, expansions, j, maps) ==
    IF j > Len(expansions) THEN maps
    ELSE
      LET source_region == Get(expansions[j], "source_region", <<>>)
      IN  IF Len(source_region) < 4
          THEN IndexExpansions_KeepsFirst(filename, expansions, j + 1, maps)
          ELSE
            LET coords == RegionCoords(source_region[1], source_region[2],
                                       source_region[3], source_region[4])
                key == ExpansionKeyFromCoords(filename, coords)
                listed == Get(maps.coord_to_filenames, coords, <<>>)
            IN  IndexExpansions_KeepsFirst(filename, expansions, j + 1,
                  [expansion_map |->
                       IF key \in DOMAIN maps.expansion_map THEN maps.expansion_map
                       ELSE Put(maps.expansion_map, key, TargetRegions(expansions[j])),
                   coord_to_filenames |->
                       Put(maps.coord_to_filenames, coords, Append(listed, filename))])

\* the loop over one file's expansions, from its j-th entry on
RECURSIVE IndexExpansions(_, _, _, _)
IndexExpansions(filename, expansions, j, maps) ==
    IF j > Len(expansions) THEN maps
    ELSE
      LET expansion == expansions[j]
          source_region == Get(expansion, "source_region", <<>>)
      IN  IF Len(source_region) < 4
          THEN IndexExpansions(filename, expansions, j + 1, maps)
          ELSE
            LET coords == RegionCoords(source_region[1], source_region[2],
                                       source_region[3], source_region[4])
                key == ExpansionKeyFromCoords(filename, coords)
                target_regions == TargetRegions(expansion)
                listed == Get(maps.coord_to_filenames, coords, <<>>)
            IN  IndexExpansions(filename, expansions, j + 1,
                  [expansion_map |-> Put(maps.expansion_map, key, target_regions),
                   coord_to_filenames |->
                       Put(maps.coord_to_filenames, coords, Append(listed, filename))])

\* the loop over the export object's files, from its j-th file on
RECURSIVE IndexFiles(_, _, _)
IndexFiles(files, j, maps) ==
    IF j > Len(files) THEN maps
    ELSE
      LET file_obj == files[j]
          filename == Get(file_obj, "filename", "")
      IN  IndexFiles(files, j + 1,
                     IndexExpansions(filename, Get(file_obj, "expansions", <<>>), 1, maps))

\* the maps are built once, from the first export object of the document
BuildExpansionCoverageMap_FirstObject(export_obj) ==
    IndexFiles(Get(coverage_data["data"][1], "files", <<>>), 1, NoMaps)

BuildExpansionCoverageMap(export_obj) ==
    IndexFiles(Get(export_obj, "files", <<>>), 1, NoMaps)

----------------------------------------------------------------------------
(* The loop "for fn in expansion_filenames" of the two resolvers.  Its body  *)
(* changes nothing until it reaches the filename it breaks on, so the loop   *)
(* is the choice of that filename's key; NoKey when it runs to the end.      *)

NoKey == <<>>

\* _process_regions: fn in filenames_set and key in expansion_map
ProcessRegionsKey(coords, emap, c2f, filenames_set) ==
    LET expansion_filenames == Get(c2f, coords, <<>>)
        hits == {j \in 1..Len(expansion_filenames) :
                    /\ expansion_filenames[j] \in filenames_set
                    /\ ExpansionKeyFromCoords(expansion_filenames[j], coords) \in DOMAIN emap}
    IN  IF hits = {} THEN NoKey
        ELSE ExpansionKeyFromCoords(expansion_filenames[Min(hits)], coords)

\* the test "key not in visited" left out
ProcessExpansionLinesKey_NoVisited(coords, emap, c2f, filenames_set, seen) ==
    ProcessRegionsKey(coords, emap, c2f, filenames_set)

\* _process_expansion_lines: fn in filenames_set and key in expansion_map
\* and key not in visited
ProcessExpansionLinesKey(coords, emap, c2f, filenames_set, seen) ==
    LET expansion_filenames == Get(c2f, coords, <<>>)
        hits == {j \in 1..Len(expansion_filenames) :
                    /\ expansion_filenames[j] \in filenames_set
                    /\ ExpansionKeyFromCoords(expansion_filenames[j], coords) \in DOMAIN emap
                    /\ ExpansionKeyFromCoords(expansion_filenames[j], coords) \notin seen}
    IN  IF hits = {} THEN NoKey
        ELSE ExpansionKeyFromCoords(expansion_filenames[Min(hits)], coords)

----------------------------------------------------------------------------
(* The aggregator's position *)

\* the check left out
HasData_Assumed(doc) == TRUE

\* "data" in coverage_data
HasData(doc) == "data" \in DOMAIN doc

ExportObjects == coverage_data["data"]
CurObj == ExportObjects[obj_idx]
CurFunc == CurObj["functions"][func_idx]

\* function.get("filenames", [])
Filenames(function) == Get(function, "filenames", <<>>)

\* a function without filenames is matched against every file of the object
FilenamesSet_AnyFile(function) ==
    IF Filenames(function) = <<>>
    THEN {CurObj["files"][j]["filename"] : j \in 1..Len(CurObj["files"])}
    ELSE ToSet(Filenames(function))

\* set(filenames) if filenames else set()
FilenamesSet(function) == ToSet(Filenames(function))

\* the test on the empty string left out
DemangledName_AcceptsEmpty(function) ==
    LET mangled == function["name"]
    IN  IF language \in {"c", "c++"} /\ ~cxxfilt[mangled].raises
        THEN cxxfilt[mangled].value
        ELSE mangled

\* the name after the demangling block
DemangledName(function) ==
    LET mangled == function["name"]
    IN  IF language \in {"c", "c++"}
        THEN IF cxxfilt[mangled].raises THEN mangled
             ELSE IF cxxfilt[mangled].value # "" THEN cxxfilt[mangled].value
             ELSE mangled
        ELSE mangled

\* "functions" not in export_obj
SkipsObject(export_obj) == "functions" \notin DOMAIN export_obj

\* "name" not in function
SkipsFunction_OnlyMissingName(function) == "name" \notin DOMAIN function

\* "name" not in function or "regions" not in function
SkipsFunction(function) ==
    "name" \notin DOMAIN function \/ "regions" \notin DOMAIN function

\* covered_line_count >= 0
Reported_AnyCount(covered_line_count) == covered_line_count >= 0

\* covered_line_count > 0
Reported(covered_line_count) == covered_line_count > 0

\* a call of a resolver on a region list with its own two sets
Frame(regions, key) ==
    [regions |-> regions, i |-> 1, total_lines |-> {}, covered_lines |-> {}, key |-> key]

Depth == Len(stack)
Top == stack[Depth]
Exhausted(f) == f.i > Len(f.regions)

----------------------------------------------------------------------------
(* Steps *)

\* entry of _process_function_coverage
Start ==
    /\ pc = "start"
    /\ IF ~HasData(coverage_data)
       THEN pc' = "done"
       ELSE IF "data" \notin DOMAIN coverage_data
            THEN pc' = "raised"        \* KeyError
            ELSE pc' = "objects"
    /\ obj_idx' = 1
    /\ UNCHANGED <<coverage_data, language, cxxfilt, func_idx, name, expansion_map,
                   coord_to_filenames, expansion_lines_cache, stack, visited,
                   function_coverage>>
    /\ UNCHANGED redis_vars

\* one turn of "for export_obj in coverage_data['data']", or its end
NextExportObject ==
    /\ pc = "objects"
    /\ IF obj_idx > Len(ExportObjects)
       THEN /\ pc' = "done"
            /\ UNCHANGED <<obj_idx, func_idx, expansion_map, coord_to_filenames,
                           expansion_lines_cache>>
       ELSE IF SkipsObject(CurObj)
            THEN /\ obj_idx' = obj_idx + 1
                 /\ UNCHANGED <<pc, func_idx, expansion_map, coord_to_filenames,
                                expansion_lines_cache>>
            ELSE IF "functions" \notin DOMAIN CurObj
            THEN /\ pc' = "raised"       \* KeyError
                 /\ UNCHANGED <<obj_idx, func_idx, expansion_map, coord_to_filenames,
                                expansion_lines_cache>>
            ELSE LET maps == BuildExpansionCoverageMap(CurObj)
                 IN  /\ expansion_map' = maps.expansion_map
                     /\ coord_to_filenames' = maps.coord_to_filenames
                     /\ expansion_lines_cache' = EmptyDict
                     /\ func_idx' = 1
                     /\ pc' = "functions"
                     /\ UNCHANGED obj_idx
    /\ UNCHANGED <<coverage_data, language, cxxfilt, name, stack, visited,
                   function_coverage>>
    /\ UNCHANGED redis_vars

\* one turn of "for func_idx, function in enumerate(...)" up to the call of
\* _process_regions, or the end of the loop
NextFunction ==
    /\ pc = "functions"
    /\ IF func_idx > Len(CurObj["functions"])
       THEN /\ obj_idx' = obj_idx + 1
            /\ pc' = "objects"
            /\ UNCHANGED <<func_idx, name, stack>>
       ELSE IF SkipsFunction(CurFunc)
            THEN /\ func_idx' = func_idx + 1
                 /\ UNCHANGED <<pc, obj_idx, name, stack>>
            ELSE IF "name" \notin DOMAIN CurFunc \/ "regions" \notin DOMAIN CurFunc
            THEN /\ pc' = "raised"       \* KeyError
                 /\ UNCHANGED <<obj_idx, func_idx, name, stack>>
            ELSE /\ name' = DemangledName(CurFunc)
                 /\ stack' = <<Frame(CurFunc["regions"], NoKey)>>
                 /\ pc' = "regions"
                 /\ UNCHANGED <<obj_idx, func_idx>>
    /\ UNCHANGED <<coverage_data, language, cxxfilt, expansion_map, coord_to_filenames,
                   expansion_lines_cache, visited, function_coverage>>
    /\ UNCHANGED redis_vars

\* break instead of continue: the rest of the list is left out
Advance_Breaks(f) == [f EXCEPT !.i = Len(f.regions) + 1]

\* the frame after "continue" or after a region that adds nothing
Advance(f) == [f EXCEPT !.i = @ + 1]

\* the frame after both of its sets were updated with more lines
Accumulate(f, total, covered) ==
    [f EXCEPT !.i = @ + 1,
              !.total_lines = @ \cup total,
              !.covered_lines = @ \cup covered]

\* the frame after a cache hit: total_lines.update(cached.total_lines) and
\* covered_lines.update(cached.covered_lines)
CacheHit(f, cached) == Accumulate(f, cached.total_lines, cached.covered_lines)

\* the call site is counted as one reachable line when the expansion has lines
Returned_CountsCallSite(caller, f) ==
    Accumulate(caller,
               f.total_lines \cup (IF f.total_lines = {} THEN {}
                                   ELSE {caller.regions[caller.i][1]}),
               f.covered_lines)

\* an expansion that has lines counts as the one line of its call site
Returned_CountsOneLine(caller, f) ==
    Accumulate(caller,
               IF f.total_lines = {} THEN {} ELSE {caller.regions[caller.i][1]},
               IF f.covered_lines = {} THEN {} ELSE {caller.regions[caller.i][1]})

\* the caller's sets are assigned the nested result
Returned_Replaces(caller, f) ==
    [caller EXCEPT !.i = @ + 1,
                   !.total_lines = f.total_lines,
                   !.covered_lines = f.covered_lines]

\* the calling frame after the recursive call returned with frame f:
\* total_lines.update(nested_total) and covered_lines.update(nested_covered)
Returned(caller, f) == Accumulate(caller, f.total_lines, f.covered_lines)

\* one region of the innermost call: of _process_regions at depth 1, of
\* _process_expansion_lines below it
ProcessRegion ==
    /\ pc = "regions"
    /\ ~Exhausted(Top)
    /\ LET f == Top
           region == f.regions[f.i]
       IN  IF Len(region) < 5
           THEN /\ stack' = [stack EXCEPT ![Depth] = Advance(f)]
                /\ UNCHANGED <<visited, expansion_lines_cache>>
           ELSE IF RegionKind(region) = REGION_KIND_CODE
           THEN LET added == AddRegionLines(region, f.total_lines, f.covered_lines)
                IN  /\ stack' = [stack EXCEPT ![Depth] =
                                   [Advance(f) EXCEPT
                                       !.total_lines = added.total_lines,
                                       !.covered_lines = added.covered_lines]]
                    /\ UNCHANGED <<visited, expansion_lines_cache>>
           ELSE IF RegionKind(region) = REGION_KIND_EXPANSION
           THEN LET coords == RegionCoords(region[1], region[2], region[3], region[4])
                    key == IF Depth = 1
                           THEN ProcessRegionsKey(coords, expansion_map,
                                    coord_to_filenames, FilenamesSet(CurFunc))
                           ELSE ProcessExpansionLinesKey(coords, expansion_map,
                                    coord_to_filenames, FilenamesSet(CurFunc), visited)
                IN  IF key = NoKey
                    THEN /\ stack' = [stack EXCEPT ![Depth] = Advance(f)]
                         /\ UNCHANGED <<visited, expansion_lines_cache>>
                    ELSE /\ visited' = IF Depth = 1 THEN {} ELSE visited \cup {key}
                         /\ IF key \in DOMAIN expansion_lines_cache
                            THEN stack' = [stack EXCEPT ![Depth] =
                                              CacheHit(f, expansion_lines_cache[key])]
                            ELSE stack' = Append(stack, Frame(expansion_map[key], key))
                         /\ UNCHANGED expansion_lines_cache
           ELSE /\ stack' = [stack EXCEPT ![Depth] = Advance(f)]
                /\ UNCHANGED <<visited, expansion_lines_cache>>
    /\ UNCHANGED <<coverage_data, language, cxxfilt, pc, obj_idx, func_idx, name,
                   expansion_map, coord_to_filenames, function_coverage>>
    /\ UNCHANGED redis_vars

\* _process_expansion_lines returns: the caller stores the result in the
\* cache, adds it to its own sets and breaks out of the filename loop
ReturnExpansion ==
    /\ pc = "regions"
    /\ Depth > 1
    /\ Exhausted(Top)
    /\ LET f == Top
           caller == stack[Depth - 1]
       IN  /\ expansion_lines_cache' =
                 Put(expansion_lines_cache, f.key,
                     CachedExpansionLines(f.total_lines, f.covered_lines))
           /\ stack' = [SubSeq(stack, 1, Depth - 1) EXCEPT ![Depth - 1] =
                           Returned(caller, f)]
           /\ visited' = IF Depth = 2 THEN {} ELSE visited
    /\ UNCHANGED <<coverage_data, language, cxxfilt, pc, obj_idx, func_idx, name,
                   expansion_map, coord_to_filenames, function_coverage>>
    /\ UNCHANGED redis_vars

\* _process_regions returns: the function is counted and reported
EmitFunction ==
    /\ pc = "regions"
    /\ Depth = 1
    /\ Exhausted(Top)
    /\ LET total_line_count == Cardinality(Top.total_lines)
           covered_line_count == Cardinality(Top.covered_lines)
       IN  function_coverage' =
             IF Reported(covered_line_count)
             THEN Append(function_coverage,
                         CoveredFunction(name, total_line_count, covered_line_count,
                                         Filenames(CurFunc)))
             ELSE function_coverage
    /\ stack' = <<>>
    /\ func_idx' = func_idx + 1
    /\ pc' = "functions"
    /\ UNCHANGED <<coverage_data, language, cxxfilt, obj_idx, name, expansion_map,
                   coord_to_filenames, expansion_lines_cache, visited>>
    /\ UNCHANGED redis_vars

Next ==
    \/ Start
    \/ NextExportObject
    \/ NextFunction
    \/ ProcessRegion
    \/ ReturnExpansion
    \/ EmitFunction

----------------------------------------------------------------------------
(* RedisSet and RedisBoolFlag.  The client is the default redis-py client:   *)
(* it encodes the str arguments of a command and replies with bytes.         *)

Str(s) == [type |-> "str", chars |-> s]
Bytes(s) == [type |-> "bytes", chars |-> s]
None == [type |-> "NoneType", chars |-> ""]

\* str.encode("utf-8") on the way to the server, bytes.decode("utf-8")
Encode(v) == IF v.type = "str" THEN Bytes(v.chars) ELSE v
Decode(b) == IF b.type = "bytes" THEN Str(b.chars) ELSE b

\* what the keyspace holds under a key: a string or a set of members
StringValue(b) == [kind |-> "string", value |-> b, members |-> {}]
SetValue(members) == [kind |-> "set", value |-> None, members |-> members]

\* the members of the set stored under key; a key that does not exist is
\* the empty set
Members(db, key) == IF key \in DOMAIN db THEN db[key].members ELSE {}

\* the server's commands: the keyspace after the command and its reply
SADD(db, key, member) ==
    [db |-> Put(db, key, SetValue(Members(db, key) \cup {member})),
     reply |-> IF member \in Members(db, key) THEN 0 ELSE 1]
SREM(db, key, member) ==
    [db |-> IF Members(db, key) \ {member} = {}
            THEN [k \in DOMAIN db \ {key} |-> db[k]]
            ELSE Put(db, key, SetValue(Members(db, key) \ {member})),
     reply |-> IF member \in Members(db, key) THEN 1 ELSE 0]
SISMEMBER(db, key, member) == member \in Members(db, key)
SMEMBERS(db, key) == Members(db, key)
SCARD(db, key) == Cardinality(Members(db, key))
SET(db, key, value) == Put(db, key, StringValue(value))
GET(db, key) == IF key \in DOMAIN db THEN db[key].value ELSE None

\* a method call: the keyspace after it and the value it returns
Call(db, returned) == [db |-> db, returned |-> returned]

\* sadd(...) == 1: whether the value was added
add_ReturnsAdded(db, set_name, value) ==
    LET r == SADD(db, set_name, Encode(Str(value))) IN Call(r.db, r.reply = 1)

\* RedisSet.add
add(db, set_name, value) ==
    LET r == SADD(db, set_name, Encode(Str(value))) IN Call(r.db, r.reply = 0)

\* RedisSet.remove
remove(db, set_name, value) ==
    LET r == SREM(db, set_name, Encode(Str(value))) IN Call(r.db, r.reply = 1)

\* RedisSet.contains
contains(db, set_name, value) ==
    Call(db, SISMEMBER(db, set_name, Encode(Str(value))))

\* RedisSet.__iter__: the values it yields
iter(db, set_name) ==
    Call(db, {Decode(member) : member \in SMEMBERS(db, set_name)})

\* RedisSet.__len__
len(db, set_name) == Call(db, SCARD(db, set_name))

\* RedisBoolFlag.set_true
set_true(db, flag_name) == Call(SET(db, flag_name, Encode(Str("1"))), None)

\* value == "1": the reply compared with a str
is_true_ComparesStr(db, flag_name) == Call(db, GET(db, flag_name) = Str("1"))

\* RedisBoolFlag.is_true
is_true(db, flag_name) == Call(db, GET(db, flag_name) = Bytes("1"))

\* no method was called yet
NoCall == [method |-> "", key |-> "", value |-> "", returned |-> None]

\* what result holds after a method call
Outcome(method, key, value, call) ==
    [method |-> method, key |-> key, value |-> value, returned |-> call.returned]

SetNames == {"seen", "done"}
FlagNames == {"ready", "stop"}
Values == {"a", "b", "c"}

CallAdd ==
    \E n \in SetNames, v \in Values :
        /\ redis' = add(redis, n, v).db
        /\ result' = Outcome("add", n, v, add(redis, n, v))
        /\ UNCHANGED coverage_vars

CallRemove ==
    \E n \in SetNames, v \in Values :
        /\ redis' = remove(redis, n, v).db
        /\ result' = Outcome("remove", n, v, remove(redis, n, v))
        /\ UNCHANGED coverage_vars

CallContains ==
    \E n \in SetNames, v \in Values :
        /\ redis' = contains(redis, n, v).db
        /\ result' = Outcome("contains", n, v, contains(redis, n, v))
        /\ UNCHANGED coverage_vars

CallIter ==
    \E n \in SetNames :
        /\ redis' = iter(redis, n).db
        /\ result' = Outcome("iter", n, "", iter(redis, n))
        /\ UNCHANGED coverage_vars

CallLen ==
    \E n \in SetNames :
        /\ redis' = len(redis, n).db
        /\ result' = Outcome("len", n, "", len(redis, n))
        /\ UNCHANGED coverage_vars

CallSetTrue ==
    \E n \in FlagNames :
        /\ redis' = set_true(redis, n).db
        /\ result' = Outcome("set_true", n, "", set_true(redis, n))
        /\ UNCHANGED coverage_vars

CallIsTrue ==
    \E n \in FlagNames :
        /\ redis' = is_true(redis, n).db
        /\ result' = Outcome("is_true", n, "", is_true(redis, n))
        /\ UNCHANGED coverage_vars

NextRedis ==
    \/ CallAdd
    \/ CallRemove
    \/ CallContains
    \/ CallIter
    \/ CallLen
    \/ CallSetTrue
    \/ CallIsTrue

----------------------------------------------------------------------------
(* Inputs: bounded families of export documents *)

MaxLine == 3        \* code regions span lines of 1..MaxLine
MaxRegions == 2     \* longest region list of the flat and single-macro documents
NumSites == 3       \* macro call sites of the nested documents
MaxTargets == 2     \* longest target list of the nested documents

Lines == 1..MaxLine
Sites == 1..NumSites

SeqsUpTo(S, n) == UNION {[1..m -> S] : m \in 0..n}

CodeRegion(line_start, line_end, execution_count) ==
    <<line_start, 1, line_end, 1, execution_count, 0, 0, REGION_KIND_CODE>>

\* call site number s sits on line 10 * s, columns 1 to 2
SiteCoords(s) == RegionCoords(10 * s, 1, 10 * s, 2)
ExpansionRegion(s) == <<10 * s, 1, 10 * s, 2, 1, 0, s, REGION_KIND_EXPANSION>>

Expansion(s, target_regions) ==
    [source_region |-> SiteCoords(s), target_regions |-> target_regions]

Function(fname, regions, filenames) ==
    [name |-> fname, regions |-> regions, filenames |-> filenames]

Document(export_objects) ==
    [data |-> export_objects, type |-> "llvm.coverage.json.export", version |-> "2.0.1"]

\* code regions over every span of Lines, executed or not
CodePool == {CodeRegion(s, e, c) : <<s, e, c>> \in {t \in Lines \X Lines \X {0, 1} : t[1] <= t[2]}}

\* regions of the other kinds, executed, regions with fewer than 8 fields,
\* and calls of macros 1 and 2
OtherPool ==
    {<<1, 1, 2, 1, 1, 0, 0, k>> : k \in NonCodeKinds}
      \cup {<<1, 1, 2>>, <<2, 1, 2, 1>>, <<2, 1, 3, 1, 1>>, <<3, 1, 3, 1, 1, 0>>,
            <<1, 1, 1, 1, 0, 0, 0>>}
      \cup {ExpansionRegion(1), ExpansionRegion(2)}

\* the region lists of the flat and single-macro documents
RegionLists == SeqsUpTo(CodePool \cup OtherPool, MaxRegions)

\* one function over a flat region list
FlatDoc(rs) ==
    Document(<<[functions |-> <<Function("f1", rs, <<"a.c">>)>>, files |-> <<>>]>>)

\* one function with a line that is not executed and a call of macro 1,
\* whose body is a flat region list
MacroDoc(rs) ==
    Document(<<[functions |->
                   <<Function("f1", <<CodeRegion(1, 1, 0), ExpansionRegion(1)>>, <<"a.c">>)>>,
                files |-> <<[filename |-> "a.c", expansions |-> <<Expansion(1, rs)>>]>>]>>)

\* a document without its data field
NoDataDoc == [type |-> "llvm.coverage.json.export", version |-> "2.0.1"]

\* macro bodies of the nested documents: 0 stands for the body's own code
\* line (line s, executed iff s is odd), j > 0 for a call of macro j
NestRegion(s, d) == IF d = 0 THEN CodeRegion(s, s, s % 2) ELSE ExpansionRegion(d)
NestBody(s, ds) == [j \in 1..Len(ds) |-> NestRegion(s, ds[j])]

\* the bodies: up to MaxTargets different regions in any order
NestBodies ==
    {ds \in SeqsUpTo(0..NumSites, MaxTargets) :
        \A j, k \in 1..Len(ds) : ds[j] = ds[k] => j = k}

\* two functions of one file whose NumSites macros call each other freely:
\* f1 calls macro 1, f2 has a line of its own, calls macro 2 and has a call
\* site that the export lists no expansion for
NestDoc(body) ==
    Document(<<[functions |->
                   <<Function("f1", <<ExpansionRegion(1)>>, <<"a.c">>),
                     Function("f2", <<CodeRegion(9, 9, 0), ExpansionRegion(2),
                                      ExpansionRegion(NumSites + 1)>>, <<"a.c">>)>>,
                files |->
                   <<[filename |-> "a.c",
                      expansions |-> [s \in Sites |-> Expansion(s, NestBody(s, body[s]))]]>>]>>)

\* macro bodies of the two-file documents.  Both files call macros at the
\* same two sites.  Site 1 of a file: 0 no expansion, 1 a code line, 2 a call
\* of the macro at site 2, 3 both.  Site 2 of a file: 0 no expansion, 1 a
\* code line, 2 a call of the macro at site 2 itself and the code line.  The
\* code lines are 1 and 3 in a.c, 2 and 4 in b.c; line 2 is not executed.
FileBody(c, s, d) ==
    LET code == <<CodeRegion(c, c, IF c = 2 THEN 0 ELSE 1)>>
    IN  IF s = 1
        THEN (IF d \in {2, 3} THEN <<ExpansionRegion(2)>> ELSE <<>>)
               \o (IF d \in {1, 3} THEN code ELSE <<>>)
        ELSE (IF d = 2 THEN <<ExpansionRegion(2)>> ELSE <<>>) \o code

FileObject(filename, base, d1, d2) ==
    [filename |-> filename,
     expansions |->
        (IF d1 = 0 THEN <<>> ELSE <<Expansion(1, FileBody(base, 1, d1))>>)
          \o (IF d2 = 0 THEN <<>> ELSE <<Expansion(2, FileBody(base + 2, 2, d2))>>)]

FilenameLists == {<<"a.c">>, <<"b.c">>, <<"a.c", "b.c">>}

\* two files in either order and two functions that call the macro at
\* site 1, each with its own filenames: x gives the bodies of a.c, those of
\* b.c, the two filename lists and the order of the files
FileDoc(x) ==
    Document(<<[functions |-> <<Function("f1", <<ExpansionRegion(1)>>, x[5]),
                                Function("f2", <<ExpansionRegion(1)>>, x[6])>>,
                files |->
                   IF x[7]
                   THEN <<FileObject("a.c", 1, x[1], x[2]), FileObject("b.c", 2, x[3], x[4])>>
                   ELSE <<FileObject("b.c", 2, x[3], x[4]), FileObject("a.c", 1, x[1], x[2])>>]>>)

FileChoices ==
    (0..3) \X (0..2) \X (0..3) \X (0..2) \X FilenameLists \X FilenameLists \X BOOLEAN

\* the state before _process_function_coverage is called on a document, for
\* a project language and a behaviour of the demangler
InitIn(doc, lang, demangle) ==
    /\ coverage_data = doc
    /\ language = lang
    /\ cxxfilt = demangle
    /\ pc = "start"
    /\ obj_idx = 0
    /\ func_idx = 0
    /\ name = ""
    /\ expansion_map = EmptyDict
    /\ coord_to_filenames = EmptyDict
    /\ expansion_lines_cache = EmptyDict
    /\ stack = <<>>
    /\ visited = {}
    /\ function_coverage = <<>>
    /\ redis = EmptyDict
    /\ result = NoCall

\* a C project whose function names demangle to themselves
InitOn(doc) ==
    InitIn(doc, "c", [n \in {"f1", "f2"} |-> [raises |-> FALSE, value |-> n]])

Init ==
    \/ \E rs \in RegionLists : InitOn(FlatDoc(rs)) \/ InitOn(MacroDoc(rs))
    \/ InitOn(NoDataDoc)
Spec == Init /\ [][Next]_vars

InitNest == \E body \in [Sites -> NestBodies] : InitOn(NestDoc(body))
SpecNest == InitNest /\ [][Next]_vars

InitFiles == \E x \in FileChoices : InitOn(FileDoc(x))
SpecFiles == InitFiles /\ [][Next]_vars

\* Documents for the index builder.  The entries that a file lists, over the
\* lines c and c + 1: two well-formed entries, the second with target
\* regions that resolution passes over; an entry with 3 coordinates, one
\* without source_region, one without target_regions, a second entry at the
\* coordinates of the first with other targets, one with 5 coordinates, and
\* a third entry at the coordinates of the first whose macro calls itself.
EntryPool(c) ==
    {Expansion(1, <<CodeRegion(c, c, 1)>>),
     Expansion(2, <<<<1, 1, 3>>, CodeRegion(c + 1, c + 1, 0),
                    <<1, 1, 2, 1, 1, 0, 0, REGION_KIND_GAP>>>>),
     [source_region |-> <<10, 1, 10>>, target_regions |-> <<CodeRegion(c, c, 1)>>],
     [target_regions |-> <<CodeRegion(c, c, 1)>>],
     [source_region |-> SiteCoords(1)],
     Expansion(1, <<CodeRegion(c + 1, c + 1, 1)>>),
     [source_region |-> <<20, 1, 20, 2, 0>>, target_regions |-> <<ExpansionRegion(1)>>],
     Expansion(1, <<ExpansionRegion(1), CodeRegion(c + 2, c + 2, 1)>>)}

MaxExpansions == 2      \* longest expansion list of the first file

\* the first file: a.c with a list of entries, or without the expansions key
FirstFiles ==
    {[filename |-> "a.c", expansions |-> es] : es \in SeqsUpTo(EntryPool(1), MaxExpansions)}
      \cup {[filename |-> "a.c"]}

\* what follows it: nothing, b.c, a file without a name, a.c once more
SecondFiles ==
    {<<>>,
     <<[filename |-> "b.c", expansions |-> <<Expansion(1, <<CodeRegion(5, 5, 1)>>)>>]>>,
     <<[filename |-> "b.c",
        expansions |-> <<[source_region |-> <<20, 1>>, target_regions |-> <<>>],
                         Expansion(2, <<CodeRegion(6, 6, 1)>>)>>]>>,
     <<[expansions |-> <<Expansion(1, <<CodeRegion(7, 7, 1)>>)>>]>>,
     <<[filename |-> "a.c", expansions |-> <<Expansion(1, <<CodeRegion(8, 8, 0)>>)>>]>>}

IndexFunction ==
    Function("f1", <<ExpansionRegion(1), ExpansionRegion(2)>>, <<"a.c", "b.c">>)

IndexDoc(first, second) ==
    Document(<<[functions |-> <<IndexFunction>>, files |-> <<first>> \o second]>>)

\* an export object without the files key
NoFilesDoc == Document(<<[functions |-> <<IndexFunction>>]>>)

InitIndex ==
    \/ \E first \in FirstFiles, second \in SecondFiles : InitOn(IndexDoc(first, second))
    \/ InitOn(NoFilesDoc)
SpecIndex == InitIndex /\ [][Next]_vars

\* Documents of several export objects.  An object has the file a.c with a
\* macro at site 1 and one at site 2, and the functions f1, which calls macro
\* 1, and f2, which has a line of its own and calls macro 2.  The macro
\* bodies are over the lines c and c + 1: d[1] and d[2] choose them.
UnitBody(c, s, d) ==
    IF s = 1
    THEN (IF d = 0 THEN <<CodeRegion(c, c, 1)>>
          ELSE IF d = 1 THEN <<ExpansionRegion(2), CodeRegion(c, c, 1)>>
          ELSE <<>>)
    ELSE (IF d = 0 THEN <<CodeRegion(c + 1, c + 1, 0)>>
          ELSE IF d = 1 THEN <<CodeRegion(c + 1, c + 1, 1)>>
          ELSE <<ExpansionRegion(1)>>)

UnitFiles(c, d) ==
    <<[filename |-> "a.c",
       expansions |-> <<Expansion(1, UnitBody(c, 1, d[1])),
                        Expansion(2, UnitBody(c, 2, d[2]))>>]>>

\* a function without its name, one without its regions
NamelessFunction ==
    [regions |-> <<CodeRegion(7, 7, 1), ExpansionRegion(2)>>, filenames |-> <<"a.c">>]
RegionlessFunction == [name |-> "f1", filenames |-> <<"a.c">>]
Offender(k) ==
    IF k = 1 THEN <<NamelessFunction>>
    ELSE IF k = 2 THEN <<RegionlessFunction>>
    ELSE <<>>

\* w[1] chooses what precedes f1 and w[2] what precedes f2: nothing or one
\* of the two functions above
UnitObject(c, d, w) ==
    [functions |->
        Offender(w[1]) \o <<Function("f1", <<ExpansionRegion(1)>>, <<"a.c">>)>>
          \o Offender(w[2])
          \o <<Function("f2", <<CodeRegion(9, 9, 0), ExpansionRegion(2)>>, <<"a.c">>)>>,
     files |-> UnitFiles(c, d)]

\* an export object without its functions
ObjectWithoutFunctions == [files |-> UnitFiles(3, <<0, 1>>)]

\* the list with x put before its p-th element; the list itself for p = 0
Insert(list, p, x) ==
    IF p = 0 THEN list
    ELSE SubSeq(list, 1, p - 1) \o <<x>> \o SubSeq(list, p, Len(list))

\* two objects over the same file name and the same call sites, the first
\* over lines 1 and 2, the second over lines 5 and 6, in either order, with
\* or without an object without functions somewhere in the list
UnitDoc(u) ==
    LET A == UnitObject(1, u[1], u[2])
        B == UnitObject(5, u[3], <<0, 0>>)
    IN  Document(Insert(IF u[4] THEN <<A, B>> ELSE <<B, A>>, u[5], ObjectWithoutFunctions))

UnitChoices ==
    ((0..2) \X (0..2)) \X ((0..2) \X (0..2)) \X {<<0, 1>>, <<1, 0>>, <<1, 2>>}
       \X BOOLEAN \X (0..3)

InitUnits == \E u \in UnitChoices : InitOn(UnitDoc(u))
SpecUnits == InitUnits /\ [][Next]_vars

\* Documents for the demangling of names: one object with the function
\* _Z1fv, which has line 1 and calls macro 1 (line 4), and the function main
\* of lines 2 to 3; x says which of the three code regions ran.  The
\* project is a C, a C++ or a Java project, and cxxfilt.demangle raises,
\* returns the empty string, returns the name unchanged or returns another
\* name.
NameDoc(x) ==
    Document(<<[functions |->
                   <<Function("_Z1fv", <<CodeRegion(1, 1, x[1]), ExpansionRegion(1)>>,
                              <<"a.c">>),
                     Function("main", <<CodeRegion(2, 3, x[2])>>, <<"a.c">>)>>,
                files |->
                   <<[filename |-> "a.c",
                      expansions |-> <<Expansion(1, <<CodeRegion(4, 4, x[3])>>)>>]>>]>>)

Languages == {"c", "c++", "jvm"}

Demanglings(n) ==
    {[raises |-> TRUE, value |-> ""], [raises |-> FALSE, value |-> ""],
     [raises |-> FALSE, value |-> n], [raises |-> FALSE, value |-> "f()"]}

InitNames ==
    \E x \in {0, 1} \X {0, 1} \X {0, 1}, lang \in Languages,
       d1 \in Demanglings("_Z1fv"), d2 \in Demanglings("main") :
        InitIn(NameDoc(x), lang, [n \in {"_Z1fv", "main"} |-> IF n = "main" THEN d2 ELSE d1])
SpecNames == InitNames /\ [][Next]_vars

\* the Redis classes on an empty keyspace; no document is aggregated
InitRedis == InitOn(NoDataDoc)
SpecRedis == InitRedis /\ [][NextRedis]_vars

\* Documents with a function that names no file.  The file a.c has a macro
\* at site 1, with the executed line 3, and one at site 2, with line 2 and a
\* call of macro 1.  f1 names a.c and calls macro 1; f2 has regions out of
\* UnfiledPool and either no filenames key or an empty list; either
\* function can come first.
UnfiledPool ==
    {CodeRegion(1, 1, 1), CodeRegion(1, 2, 0), ExpansionRegion(1), ExpansionRegion(2)}

UnfiledFunction(regions, has_key) ==
    IF has_key THEN Function("f2", regions, <<>>)
    ELSE [name |-> "f2", regions |-> regions]

UnfiledDoc(regions, has_key, first) ==
    LET f1 == Function("f1", <<ExpansionRegion(1)>>, <<"a.c">>)
        f2 == UnfiledFunction(regions, has_key)
    IN  Document(<<[functions |-> IF first THEN <<f2, f1>> ELSE <<f1, f2>>,
                    files |->
                       <<[filename |-> "a.c",
                          expansions |->
                             <<Expansion(1, <<CodeRegion(3, 3, 1)>>),
                               Expansion(2, <<CodeRegion(2, 2, 0), ExpansionRegion(1)>>)>>]>>]>>)

InitUnfiled ==
    \E regions \in SeqsUpTo(UnfiledPool, MaxRegions), has_key \in BOOLEAN, first \in BOOLEAN :
        InitOn(UnfiledDoc(regions, has_key, first))
SpecUnfiled == InitUnfiled /\ [][Next]_vars

----------------------------------------------------------------------------
(* Vocabulary of the properties *)

\* _process_regions has walked the whole region list of the current function
\* and is about to return its two sets
Resolved == pc = "regions" /\ Depth = 1 /\ Exhausted(Top)

\* a region that is resolved as a code region, one that is resolved as an
\* expansion region, one of the kinds that are passed over
IsCode(r) == Len(r) >= 5 /\ (Len(r) > 7 => r[8] = REGION_KIND_CODE)
IsExpansion(r) == Len(r) > 7 /\ r[8] = REGION_KIND_EXPANSION
IsOtherKind(r) == Len(r) > 7 /\ r[8] \in NonCodeKinds

\* the inclusive line span of a region
Span(r) == r[1]..r[3]

\* the union of the spans of the code regions of a list: all, and executed
CodeSpans(regions) ==
    UNION {Span(regions[j]) : j \in {k \in 1..Len(regions) : IsCode(regions[k])}}
CoveredSpans(regions) ==
    UNION {Span(regions[j]) :
              j \in {k \in 1..Len(regions) : IsCode(regions[k]) /\ regions[k][5] > 0}}

\* the expansion key a region of the current function resolves to
TopLevelKey(r) ==
    ProcessRegionsKey(RegionCoords(r[1], r[2], r[3], r[4]), expansion_map,
                      coord_to_filenames, FilenamesSet(CurFunc))

\* the keys that the expansion regions of the current function resolve to
TopLevelKeys ==
    {TopLevelKey(CurFunc["regions"][j]) :
        j \in {k \in 1..Len(CurFunc["regions"]) : IsExpansion(CurFunc["regions"][k])}}
      \ {NoKey}

----------------------------------------------------------------------------
(* Properties *)

\* C1: when _process_regions has run on empty line sets, whatever the cache
\* holds from earlier functions of the export object, covered_lines is a
\* subset of total_lines and has at most as many lines.
CoveredSubsetOfTotal ==
    Resolved =>
        /\ Top.covered_lines \subseteq Top.total_lines
        /\ Cardinality(Top.covered_lines) <= Cardinality(Top.total_lines)

\* the second function resolved through a cache filled by the first, with
\* some lines covered and some not
CoveredSubsetOfTotal_Witness ==
    /\ Resolved
    /\ func_idx = 2
    /\ DOMAIN expansion_lines_cache # {}
    /\ Top.covered_lines # {}
    /\ Top.covered_lines # Top.total_lines

\* C2: the lines attributed to a function come only from its own code
\* regions and from the target regions of expansions whose key's filename is
\* one of the function's filenames.
NoCrossFileLeak ==
    Resolved =>
        Top.total_lines \cup Top.covered_lines \subseteq
            CodeSpans(CurFunc["regions"])
              \cup UNION {CodeSpans(expansion_map[k]) :
                            k \in {x \in DOMAIN expansion_map : x[1] \in FilenamesSet(CurFunc)}}

\* C3: every reported function has covered_lines > 0, and a function whose
\* covered set is empty is not appended to the output, even when its total
\* set is not empty.
ReportedOnlyIfCovered ==
    /\ [](\A j \in 1..Len(function_coverage) : function_coverage[j].covered_lines > 0)
    /\ [][(Resolved /\ Top.covered_lines = {}) => function_coverage' = function_coverage]_vars

\* a document whose only function has reachable lines, none executed, was
\* aggregated to the empty list
ReportedOnlyIfCovered_Witness ==
    /\ pc = "done"
    /\ "data" \in DOMAIN coverage_data
    /\ Len(ExportObjects[1]["functions"]) = 1
    /\ CodeSpans(ExportObjects[1]["functions"][1]["regions"]) # {}
    /\ function_coverage = <<>>

\* the expansion with key k has a target region that calls the macro of key k2
Calls(k, k2) ==
    \E j \in 1..Len(expansion_map[k]) :
        /\ IsExpansion(expansion_map[k][j])
        /\ ExpansionKeyFromCoords(k[1], RegionCoords(expansion_map[k][j][1],
               expansion_map[k][j][2], expansion_map[k][j][3], expansion_map[k][j][4])) = k2

\* The rank of a state, a tuple of naturals ordered lexicographically: the
\* stage of the aggregation, the export objects left, the functions left of
\* the current object, and the work left in the current function.  In that
\* work a region still to be walked weighs Weight(u), where u is the number
\* of expansion keys that the visited set still lets a nested call enter
\* (one more for a region of the function itself, which _process_regions
\* resolves without consulting visited); a region whose expansion is being
\* resolved weighs nothing, and every active call weighs one.
LongestList ==
    LET lens == {Len(expansion_map[k]) : k \in DOMAIN expansion_map}
                  \cup {Len(CurFunc["regions"])}
    IN  CHOOSE n \in lens : \A m \in lens : m <= n

RECURSIVE WeightOver(_, _)
WeightOver(u, longest) == IF u = 0 THEN 1 ELSE longest * WeightOver(u - 1, longest) + 2
Weight(u) == WeightOver(u, LongestList)

NumKeys == Cardinality(DOMAIN expansion_map)

\* the work left in the calls stack[1..d], given the two weights
RECURSIVE WorkLeftIn(_, _, _)
WorkLeftIn(d, own, nested) ==
    IF d = 0 THEN 0
    ELSE LET f == stack[d]
             pending == IF d = Depth THEN Len(f.regions) + 1 - f.i
                        ELSE Len(f.regions) - f.i
         IN  1 + pending * (IF d = 1 THEN own ELSE nested) + WorkLeftIn(d - 1, own, nested)

WorkLeft ==
    WorkLeftIn(Depth, Weight(NumKeys + 1), Weight(NumKeys - Cardinality(visited)))

\* the loop over the functions is about to start; it is about to call
\* _process_regions
EntersObject ==
    pc = "objects" /\ obj_idx <= Len(ExportObjects) /\ "functions" \in DOMAIN CurObj
EntersFunction ==
    /\ pc = "functions"
    /\ func_idx <= Len(CurObj["functions"])
    /\ "name" \in DOMAIN CurFunc
    /\ "regions" \in DOMAIN CurFunc

Rank ==
    IF pc = "start" THEN <<2, 0, 0, 0>>
    ELSE IF pc \in {"done", "raised"} THEN <<0, 0, 0, 0>>
    ELSE <<1,
           Len(ExportObjects) + 1 - obj_idx,
           IF pc = "objects"
           THEN (IF EntersObject THEN Len(CurObj["functions"]) + 1 ELSE 0)
           ELSE Len(CurObj["functions"]) + 1 - func_idx,
           IF pc = "regions" THEN WorkLeft
           ELSE IF EntersFunction
           THEN 2 + Len(CurFunc["regions"]) * Weight(NumKeys + 1)
           ELSE 0>>

LexLess(a, b) ==
    \E j \in 1..4 : a[j] < b[j] /\ \A k \in 1..(j - 1) : a[k] = b[k]

\* C4: resolution terminates for every finite expansion map, cyclic ones
\* included: every step of the aggregation lowers the rank, the rank never
\* leaves the naturals, and short of its return the aggregation always has a
\* step to take (nothing is raised, and while it resolves a call is active).
ResolutionTerminates ==
    /\ [][LexLess(Rank', Rank)]_vars
    /\ [](\A j \in 1..4 : Rank[j] \in Nat)
    /\ [](pc # "raised" /\ (pc = "regions" => Depth >= 1))

\* the aggregation is over on a map where the macro that f1 calls and
\* another macro call each other
ResolutionTerminates_Witness ==
    /\ pc = "done"
    /\ \E k2 \in DOMAIN expansion_map :
          /\ k2 # ExpansionKeyFromCoords("a.c", SiteCoords(1))
          /\ Calls(ExpansionKeyFromCoords("a.c", SiteCoords(1)), k2)
          /\ Calls(k2, ExpansionKeyFromCoords("a.c", SiteCoords(1)))

\* C5: a region of kind skipped, gap, branch, mcdc-decision or mcdc-branch
\* leaves both line sets of the call that walks it unchanged, in a function's
\* own list and among the target regions of an expansion; it starts no
\* resolution and stores nothing in the cache.
OtherKindsAddNothing ==
    [][(pc = "regions" /\ ~Exhausted(Top) /\ IsOtherKind(Top.regions[Top.i])) =>
          /\ Depth' = Depth
          /\ Top'.total_lines = Top.total_lines
          /\ Top'.covered_lines = Top.covered_lines
          /\ Top'.i = Top.i + 1
          /\ expansion_lines_cache' = expansion_lines_cache]_vars

\* a macro body whose second region is of another kind has been walked to
\* its end and holds the lines of its first region only
OtherKindsAddNothing_Witness ==
    /\ pc = "regions"
    /\ Depth = 2
    /\ Top.i = 3
    /\ IsOtherKind(Top.regions[2])
    /\ Top.regions[2][5] > 0
    /\ Top.total_lines # {}
    /\ Top.total_lines = CodeSpans(Top.regions)

\* the lines and the covered lines that the expansion regions of the current
\* function resolved to, as the cache holds them
ExpansionTotal ==
    UNION {expansion_lines_cache[k].total_lines :
              k \in TopLevelKeys \cap DOMAIN expansion_lines_cache}
ExpansionCovered ==
    UNION {expansion_lines_cache[k].covered_lines :
              k \in TopLevelKeys \cap DOMAIN expansion_lines_cache}

\* C6 as stated: after resolving a region list every line of a code region
\* of the list with execution_count > 0 is covered and no line of a code
\* region of the list with execution_count = 0 is.
ExecutionCountDecidesCoverage ==
    Resolved =>
        \A j \in 1..Len(CurFunc["regions"]) :
            LET r == CurFunc["regions"][j]
            IN  IsCode(r) =>
                  /\ r[5] > 0 => Span(r) \subseteq Top.covered_lines
                  /\ r[5] = 0 => Span(r) \cap Top.covered_lines = {}

\* C6 amended: every line of a code region of the list with execution_count
\* > 0 is covered; a line of a code region of the list with execution_count
\* = 0 is covered only if it also lies in a code region of the list with
\* execution_count > 0 or among the covered lines that an expansion region of
\* the list resolved to.
ExecutedRegionsDecideCoverage ==
    Resolved =>
        \A j \in 1..Len(CurFunc["regions"]) :
            LET r == CurFunc["regions"][j]
            IN  IsCode(r) =>
                  /\ r[5] > 0 => Span(r) \subseteq Top.covered_lines
                  /\ r[5] = 0 =>
                       Span(r) \cap Top.covered_lines \subseteq
                           CoveredSpans(CurFunc["regions"]) \cup ExpansionCovered

\* a list was resolved in which a region that never ran shares a covered
\* line with a region that ran, and has another line that is not covered
ExecutedRegionsDecideCoverage_Witness ==
    /\ Resolved
    /\ \E j, k \in 1..Len(CurFunc["regions"]) :
          LET r == CurFunc["regions"][j]
              q == CurFunc["regions"][k]
          IN  /\ IsCode(r) /\ r[5] = 0
              /\ IsCode(q) /\ q[5] > 0
              /\ Span(r) \cap Span(q) # {}
              /\ Span(r) \cap Top.covered_lines # {}
              /\ Span(r) \ Top.covered_lines # {}

AllCode(regions) == \A j \in 1..Len(regions) : IsCode(regions[j])

\* the only function of the document
OnlyFunction == ExportObjects[1]["functions"][1]

\* C7: for a list of code regions the line sets are the unions of the
\* inclusive spans (all spans for the total, those with execution_count > 0
\* for the covered set), and the counts reported for the function are the
\* cardinalities of these unions, not the sums of the span lengths.
CountsAreUnionCardinalities ==
    /\ (Resolved /\ AllCode(CurFunc["regions"])) =>
          /\ Top.total_lines = CodeSpans(CurFunc["regions"])
          /\ Top.covered_lines = CoveredSpans(CurFunc["regions"])
    /\ (pc = "done" /\ function_coverage # <<>> /\ AllCode(OnlyFunction["regions"])) =>
          /\ function_coverage[1].total_lines =
                Cardinality(CodeSpans(OnlyFunction["regions"]))
          /\ function_coverage[1].covered_lines =
                Cardinality(CoveredSpans(OnlyFunction["regions"]))

\* a function of two different overlapping code regions was reported with
\* fewer lines than the two spans have together, and a function of one
\* single-line region with exactly one line
CountsAreUnionCardinalities_Witness ==
    /\ pc = "done"
    /\ Len(function_coverage) = 1
    /\ LET rs == OnlyFunction["regions"]
       IN  /\ Len(rs) = 2
           /\ AllCode(rs)
           /\ Span(rs[1]) \cap Span(rs[2]) # {}
           /\ Span(rs[1]) # Span(rs[2])
           /\ Span(rs[1]) \cup Span(rs[2]) = Lines
           /\ function_coverage[1].total_lines = MaxLine
           /\ function_coverage[1].total_lines <
                 Cardinality(Span(rs[1])) + Cardinality(Span(rs[2]))

Callees(k) ==
    {TopLevelKey(expansion_map[k][j]) :
        j \in {i \in 1..Len(expansion_map[k]) : IsExpansion(expansion_map[k][i])}} \ {NoKey}

\* the keys reachable from k in at most n calls
RECURSIVE Descendants(_, _)
Descendants(k, n) ==
    IF n = 0 THEN {}
    ELSE Callees(k) \cup UNION {Descendants(k2, n - 1) : k2 \in Callees(k)}

Acyclic == \A k \in DOMAIN expansion_map : k \notin Descendants(k, NumKeys)

\* the spans of the code regions reachable from k through chains of
\* expansion regions: all, and executed
ReachableTotal(k) ==
    UNION {CodeSpans(expansion_map[k2]) : k2 \in {k} \cup Descendants(k, NumKeys)}
ReachableCovered(k) ==
    UNION {CoveredSpans(expansion_map[k2]) : k2 \in {k} \cup Descendants(k, NumKeys)}

\* C9: on an acyclic expansion map whose files all belong to the function's
\* filenames, each expansion region of a function contributes exactly the
\* spans of the code regions reachable from it through chains of expansion
\* regions, with their coverage.
NestedExpansionsTransitive ==
    (Resolved /\ Acyclic
       /\ \A k \in DOMAIN expansion_map : k[1] \in FilenamesSet(CurFunc)) =>
        /\ Top.total_lines =
              CodeSpans(CurFunc["regions"])
                \cup UNION {ReachableTotal(k) : k \in TopLevelKeys}
        /\ Top.covered_lines =
              CoveredSpans(CurFunc["regions"])
                \cup UNION {ReachableCovered(k) : k \in TopLevelKeys}

\* C10: when the top-level data field is absent the aggregator returns the
\* empty list and raises nothing.
MissingDataReturnsEmpty ==
    ("data" \notin DOMAIN coverage_data /\ pc # "start") =>
        pc = "done" /\ function_coverage = <<>>

\* the aggregator has returned on a document without data
MissingDataReturnsEmpty_Witness ==
    pc = "done" /\ "data" \notin DOMAIN coverage_data

----------------------------------------------------------------------------
(* What a document of export objects is expected to aggregate to, computed  *)
(* from the document alone: the lines of a function are those of its own    *)
(* code regions and of the code regions of every macro that its call sites  *)
(* reach in the object's own file list.                                      *)

HasFunctions(export_obj) == "functions" \in DOMAIN export_obj
HasNameAndRegions(function) ==
    "name" \in DOMAIN function /\ "regions" \in DOMAIN function

\* the object without the functions that lack a name or regions, the list
\* of objects without the objects that lack functions
CleanObject(export_obj) ==
    [export_obj EXCEPT !.functions = SelectSeq(@, HasNameAndRegions)]
CleanObjects(export_objects) ==
    LET kept == SelectSeq(export_objects, HasFunctions)
    IN  [j \in 1..Len(kept) |-> CleanObject(kept[j])]

\* the sites that the expansion regions of a list call
SitesCalled(regions) ==
    {regions[j][1] \div 10 : j \in {k \in 1..Len(regions) : IsExpansion(regions[k])}}

\* the target regions that the object's first file lists for site t
TargetsAt(export_obj, t) ==
    LET expansions == export_obj["files"][1]["expansions"]
        at == {j \in 1..Len(expansions) : expansions[j]["source_region"] = SiteCoords(t)}
    IN  IF at = {} THEN <<>> ELSE expansions[Min(at)]["target_regions"]

\* the sites reached from the sites of T in at most n calls
RECURSIVE SitesReached(_, _, _)
SitesReached(export_obj, T, n) ==
    IF n = 0 THEN T
    ELSE SitesReached(export_obj,
                      T \cup UNION {SitesCalled(TargetsAt(export_obj, t)) : t \in T}, n - 1)

ExpectedSites(export_obj, function) ==
    SitesReached(export_obj, SitesCalled(function["regions"]),
                 Len(export_obj["files"][1]["expansions"]))
ExpectedTotal(export_obj, function) ==
    CodeSpans(function["regions"])
      \cup UNION {CodeSpans(TargetsAt(export_obj, t)) : t \in ExpectedSites(export_obj, function)}
ExpectedCovered(export_obj, function) ==
    CoveredSpans(function["regions"])
      \cup UNION {CoveredSpans(TargetsAt(export_obj, t)) :
                     t \in ExpectedSites(export_obj, function)}

\* the records expected for the functions of an object from the j-th on
RECURSIVE ExpectedFrom(_, _)
ExpectedFrom(export_obj, j) ==
    IF j > Len(export_obj["functions"]) THEN <<>>
    ELSE LET function == export_obj["functions"][j]
             total == ExpectedTotal(export_obj, function)
             covered == ExpectedCovered(export_obj, function)
         IN  (IF covered = {} THEN <<>>
              ELSE <<CoveredFunction(function["name"], Cardinality(total),
                                     Cardinality(covered), function["filenames"])>>)
               \o ExpectedFrom(export_obj, j + 1)

\* the records expected for the first k objects of a list
RECURSIVE ExpectedUpTo(_, _)
ExpectedUpTo(export_objects, k) ==
    IF k = 0 THEN <<>>
    ELSE ExpectedUpTo(export_objects, k - 1) \o ExpectedFrom(export_objects[k], 1)

\* the step skips an export object, a function
SkipObjectStep ==
    /\ pc = "objects"
    /\ obj_idx <= Len(ExportObjects)
    /\ ~HasFunctions(CurObj)
SkipFunctionStep ==
    /\ pc = "functions"
    /\ func_idx <= Len(CurObj["functions"])
    /\ ~HasNameAndRegions(CurFunc)

\* C11: an export object without functions and a function without name or
\* without regions are skipped without an error; the step that skips one
\* moves to the next unit and changes neither the cache, nor the maps, nor
\* the output; and the output for the document is the output expected for
\* the document with these units removed.
SkippedUnitsDisturbNothing ==
    /\ [](pc # "raised")
    /\ [][SkipObjectStep =>
            /\ obj_idx' = obj_idx + 1
            /\ UNCHANGED <<pc, func_idx, name, expansion_map, coord_to_filenames,
                           expansion_lines_cache, stack, visited, function_coverage>>]_vars
    /\ [][SkipFunctionStep =>
            /\ func_idx' = func_idx + 1
            /\ UNCHANGED <<pc, obj_idx, name, expansion_map, coord_to_filenames,
                           expansion_lines_cache, stack, visited, function_coverage>>]_vars
    /\ [](pc = "done" =>
            function_coverage =
                ExpectedUpTo(CleanObjects(ExportObjects),
                             Len(CleanObjects(ExportObjects))))

\* the aggregation is over on a document with an object without functions
\* between two objects, a function without name and one without regions,
\* and both functions of both objects were reported
SkippedUnitsDisturbNothing_Witness ==
    /\ pc = "done"
    /\ Len(ExportObjects) = 3
    /\ ~HasFunctions(ExportObjects[2])
    /\ \E j \in {1, 3} :
          /\ Len(ExportObjects[j]["functions"]) = 4
          /\ "name" \notin DOMAIN ExportObjects[j]["functions"][1]
          /\ "regions" \notin DOMAIN ExportObjects[j]["functions"][3]
    /\ Len(function_coverage) = 4

\* a list without expansion regions
NoExpansions(regions) == \A j \in 1..Len(regions) : ~IsExpansion(regions[j])

\* the innermost call is at a region with fewer than 5 fields
AtMalformedRegion ==
    pc = "regions" /\ ~Exhausted(Top) /\ Len(Top.regions[Top.i]) < 5

\* C12: a region with fewer than 5 fields is passed over in a function's
\* region list and in a target list alike: the step changes neither line
\* set, neither the cache nor the visited set, starts no call and moves to
\* the next region; the regions after it are processed, so a call that has
\* walked a list without expansion regions holds the spans of all its code
\* regions.
MalformedRegionSkipped ==
    /\ [][AtMalformedRegion =>
            /\ Depth' = Depth
            /\ Top'.i = Top.i + 1
            /\ Top'.total_lines = Top.total_lines
            /\ Top'.covered_lines = Top.covered_lines
            /\ UNCHANGED <<expansion_lines_cache, visited, function_coverage>>]_vars
    /\ [](pc = "regions" /\ Exhausted(Top) /\ NoExpansions(Top.regions) =>
            /\ Top.total_lines = CodeSpans(Top.regions)
            /\ Top.covered_lines = CoveredSpans(Top.regions))

\* a macro body of a region with fewer than 5 fields followed by a code
\* region that ran has been walked and holds the lines of the code region
MalformedRegionSkipped_Witness ==
    /\ pc = "regions"
    /\ Depth = 2
    /\ Exhausted(Top)
    /\ Len(Top.regions) = 2
    /\ Len(Top.regions[1]) < 5
    /\ IsCode(Top.regions[2])
    /\ Top.covered_lines = Span(Top.regions[2])
    /\ Top.covered_lines # {}

\* a region of 5, 6 or 7 fields; a region whose kind field says code
Kindless(r) == Len(r) \in 5..7
ExplicitCode(r) == Len(r) > 7 /\ r[8] = REGION_KIND_CODE

\* the region with the same first five fields and the kind field set to code
WithKindCode(r) == <<r[1], r[2], r[3], r[4], r[5], 0, 0, REGION_KIND_CODE>>

\* the step adds region r to the sets of the innermost call as a code
\* region: its inclusive span to the total set, and to the covered set if
\* its execution count is positive
AddsAsCode(r) ==
    /\ Depth' = Depth
    /\ Top'.i = Top.i + 1
    /\ Top'.total_lines = Top.total_lines \cup (r[1]..r[3])
    /\ Top'.covered_lines =
          Top.covered_lines \cup (IF r[5] > 0 THEN r[1]..r[3] ELSE {})
    /\ UNCHANGED <<expansion_lines_cache, visited, function_coverage>>

\* C13: a region without the kind field is resolved exactly as the region
\* with the same first five fields and kind = code: in a function's list and
\* in a target list the step on either adds the region as a code region, so
\* from the same sets both lead to the same sets.
KindlessIsCode ==
    [][(pc = "regions" /\ ~Exhausted(Top)) =>
          LET r == Top.regions[Top.i]
          IN  /\ Kindless(r) => AddsAsCode(WithKindCode(r))
              /\ ExplicitCode(r) => AddsAsCode(r)]_vars

\* a macro body that starts with a region of 6 fields that ran has that
\* region's lines as covered
KindlessIsCode_Witness ==
    /\ pc = "regions"
    /\ Depth = 2
    /\ Top.i = 2
    /\ Len(Top.regions[1]) = 6
    /\ Top.covered_lines = Span(Top.regions[1])
    /\ Top.covered_lines # {}

----------------------------------------------------------------------------
(* The expansion entries of the current export object, as the document      *)
(* lists them: entry <<i, j>> is the j-th expansion of the i-th file.       *)

FilesOf(export_obj) ==
    IF "files" \in DOMAIN export_obj THEN export_obj["files"] ELSE <<>>
ExpansionsOf(file_obj) ==
    IF "expansions" \in DOMAIN file_obj THEN file_obj["expansions"] ELSE <<>>
FilenameOf(file_obj) ==
    IF "filename" \in DOMAIN file_obj THEN file_obj["filename"] ELSE ""

Entries ==
    UNION {{<<i, j>> : j \in 1..Len(ExpansionsOf(FilesOf(CurObj)[i]))} :
              i \in 1..Len(FilesOf(CurObj))}
Entry(ij) == ExpansionsOf(FilesOf(CurObj)[ij[1]])[ij[2]]
EntryFilename(ij) == FilenameOf(FilesOf(CurObj)[ij[1]])

\* an entry with a source_region of at least 4 coordinates
WellFormed(ij) ==
    "source_region" \in DOMAIN Entry(ij) /\ Len(Entry(ij)["source_region"]) >= 4
WellFormedEntries == {ij \in Entries : WellFormed(ij)}

EntryCoords(ij) ==
    LET source_region == Entry(ij)["source_region"]
    IN  <<source_region[1], source_region[2], source_region[3], source_region[4]>>
EntryKey(ij) == <<EntryFilename(ij)>> \o EntryCoords(ij)
EntryTargets(ij) ==
    IF "target_regions" \in DOMAIN Entry(ij) THEN Entry(ij)["target_regions"] ELSE <<>>

\* the maps of the current export object are built
Indexed == pc \in {"functions", "regions"}

\* the places of the coordinate index: <<c, j>> is the j-th filename under c
Listings ==
    UNION {{<<c, j>> : j \in 1..Len(coord_to_filenames[c])} : c \in DOMAIN coord_to_filenames}

\* C14: an entry whose source_region has fewer than 4 coordinates adds no
\* key to the expansion map and no filename to the coordinate index (the
\* keys are keys of well-formed entries and the index lists one filename per
\* well-formed entry), every well-formed entry of the same file is indexed
\* all the same, and an object without files, a file without expansions and
\* an entry without source_region raise nothing and add nothing.
MalformedEntrySkipped ==
    /\ pc # "raised"
    /\ Indexed =>
          /\ DOMAIN expansion_map \subseteq {EntryKey(ij) : ij \in WellFormedEntries}
          /\ Cardinality(Listings) = Cardinality(WellFormedEntries)
          /\ \A ij \in WellFormedEntries :
                /\ EntryKey(ij) \in DOMAIN expansion_map
                /\ EntryCoords(ij) \in DOMAIN coord_to_filenames
                /\ EntryFilename(ij) \in ToSet(coord_to_filenames[EntryCoords(ij)])
          /\ WellFormedEntries = {} =>
                expansion_map = EmptyDict /\ coord_to_filenames = EmptyDict

\* the maps are built for a file whose first entry has 3 coordinates and
\* whose second entry is well-formed: they hold the second entry only
MalformedEntrySkipped_Witness ==
    /\ Indexed
    /\ Len(FilesOf(CurObj)) = 1
    /\ Len(ExpansionsOf(FilesOf(CurObj)[1])) = 2
    /\ "source_region" \in DOMAIN Entry(<<1, 1>>)
    /\ Len(Entry(<<1, 1>>)["source_region"]) = 3
    /\ WellFormed(<<1, 2>>)
    /\ DOMAIN expansion_map = {EntryKey(<<1, 2>>)}
    /\ Cardinality(Listings) = 1

\* every filename that the coordinate index lists under coordinates c makes
\* a key of the expansion map with c, and the map has the keys of the
\* well-formed entries and no others
IndexConsistent ==
    /\ DOMAIN expansion_map = {EntryKey(ij) : ij \in WellFormedEntries}
    /\ \A ij \in WellFormedEntries :
          /\ EntryCoords(ij) \in DOMAIN coord_to_filenames
          /\ EntryFilename(ij) \in ToSet(coord_to_filenames[EntryCoords(ij)])
    /\ \A cj \in Listings :
          <<coord_to_filenames[cj[1]][cj[2]]>> \o cj[1] \in DOMAIN expansion_map

\* C15 as stated: the two maps are consistent and the map holds, under the
\* key of every well-formed entry, that entry's target_regions verbatim.
IndexHoldsEveryEntry ==
    Indexed =>
        /\ IndexConsistent
        /\ \A ij \in WellFormedEntries : expansion_map[EntryKey(ij)] = EntryTargets(ij)

\* entry ij comes after entry ij2 in the document, or is the same entry
NotBefore(ij, ij2) == ij[1] > ij2[1] \/ (ij[1] = ij2[1] /\ ij[2] >= ij2[2])

\* the last of the well-formed entries that have the key of entry ij
LastWithKeyOf(ij) ==
    CHOOSE last \in WellFormedEntries :
        /\ EntryKey(last) = EntryKey(ij)
        /\ \A other \in WellFormedEntries :
              EntryKey(other) = EntryKey(ij) => NotBefore(last, other)

\* C15 amended: the two maps are consistent and the map holds, under the key
\* of every well-formed entry, the target_regions verbatim of the last
\* well-formed entry in the document that has this filename and these
\* coordinates (the entry's own when no later entry shares them).
IndexHoldsLastEntry ==
    Indexed =>
        /\ IndexConsistent
        /\ \A ij \in WellFormedEntries :
              expansion_map[EntryKey(ij)] = EntryTargets(LastWithKeyOf(ij))

\* the maps are built for a file that lists two well-formed entries at the
\* same coordinates with different targets, and a second file: the map
\* holds the targets of the later entry, a region with fewer than 5 fields
\* among the targets of another key
IndexHoldsLastEntry_Witness ==
    /\ Indexed
    /\ Len(FilesOf(CurObj)) = 2
    /\ {<<1, 1>>, <<1, 2>>, <<2, 2>>} \subseteq WellFormedEntries
    /\ EntryKey(<<1, 1>>) = EntryKey(<<1, 2>>)
    /\ EntryTargets(<<1, 1>>) # EntryTargets(<<1, 2>>)
    /\ expansion_map[EntryKey(<<1, 1>>)] = EntryTargets(<<1, 2>>)
    /\ Cardinality(DOMAIN expansion_map) = 2

\* C16: the resolvers accumulate: whatever a call of _add_region_lines, a
\* cache hit or a returning call of _process_expansion_lines does, every
\* line that was in the total or the covered set of an active call is still
\* in it afterwards, and the lines of a returning call are in its caller's
\* sets.
SetsOnlyGrow ==
    [][(pc = "regions" /\ pc' = "regions") =>
          /\ \A d \in 1..Depth :
                d <= Depth' =>
                  /\ stack[d].total_lines \subseteq stack'[d].total_lines
                  /\ stack[d].covered_lines \subseteq stack'[d].covered_lines
          /\ Depth' < Depth =>
                /\ Top.total_lines \subseteq Top'.total_lines
                /\ Top.covered_lines \subseteq Top'.covered_lines]_vars

\* f2 was resolved: its sets held line 9 when its expansion region was
\* resolved, and hold line 9 and the lines of the macro now
SetsOnlyGrow_Witness ==
    /\ Resolved
    /\ Len(Top.regions) = 2
    /\ IsCode(Top.regions[1])
    /\ IsExpansion(Top.regions[2])
    /\ Span(Top.regions[1]) \subseteq Top.total_lines
    /\ Top.total_lines # Span(Top.regions[1])
    /\ Top.covered_lines # {}

\* the lines of the code regions in the target lists of the current object
ObjectLines == UNION {CodeSpans(EntryTargets(ij)) : ij \in WellFormedEntries}

\* the export objects before the current one
ObjectsDone == SubSeq(ExportObjects, 1, obj_idx - 1)

ExpectedName(function) ==
    LET demangled == cxxfilt[function["name"]]
    IN  IF language \in {"c", "c++"} /\ ~demangled.raises /\ demangled.value # ""
        THEN demangled.value
        ELSE function["name"]

\* the records of a list under the names of the document, not demangled
WithNamesOf(records, names) ==
    [j \in 1..Len(records) |-> [records[j] EXCEPT !.names = names[j]]]

\* the functions of the only object that are reported: those with covered
\* lines, whatever the language and the demangler
ReportedFunctions ==
    SelectSeq(ExportObjects[1]["functions"],
              LAMBDA function : ExpectedCovered(ExportObjects[1], function) # {})

\* C18: demangling changes the name only and loses no function: in a C or
\* C++ project a function is named by what the demangler returns if that is
\* not empty, and by its own name if the demangler raises or returns the
\* empty string; in another project by its own name; nothing is raised; and
\* the records returned are, names apart, the records expected without
\* demangling: the same functions with the same counts and paths.
DemanglingKeepsFunctions ==
    /\ [](pc # "raised")
    /\ [][EntersFunction => name' = ExpectedName(CurFunc)]_vars
    /\ [](pc = "done" =>
            /\ Len(function_coverage) = Len(ReportedFunctions)
            /\ \A j \in 1..Len(function_coverage) :
                  function_coverage[j].names = ExpectedName(ReportedFunctions[j])
            /\ WithNamesOf(function_coverage,
                           [j \in 1..Len(ReportedFunctions) |-> ReportedFunctions[j]["name"]])
                  = ExpectedFrom(ExportObjects[1], 1))

\* a C++ project was aggregated: the demangler raised on the first function
\* and returned another name for the second, and both are reported, the
\* first under its own name and the second under the demangled one
DemanglingKeepsFunctions_Witness ==
    /\ pc = "done"
    /\ language = "c++"
    /\ cxxfilt["_Z1fv"].raises
    /\ cxxfilt["main"] = [raises |-> FALSE, value |-> "f()"]
    /\ Len(function_coverage) = 2
    /\ function_coverage[1].names = "_Z1fv"
    /\ function_coverage[2].names = "f()"

----------------------------------------------------------------------------
(* RedisBoolFlag and RedisSet *)

\* what is_true, contains and len would return in the current keyspace and
\* in the next
IsTrue(n) == is_true(redis, n).returned
IsTrueNext(n) == is_true(redis', n).returned
Contains(n, v) == contains(redis, n, v).returned
ContainsNext(n, v) == contains(redis', n, v).returned
Length(n) == len(redis, n).returned
LengthNext(n) == len(redis', n).returned

\* the step is a call of the method
Calls_(method) == result'.method = method

\* C19: a flag is false before any set_true on its name; it becomes true by
\* a set_true on its name only; after set_true it is true and stays true
\* under every later call, so every later is_true returns True; and set_true
\* on a flag that is true changes nothing.
FlagIsMonotone ==
    /\ \A n \in FlagNames : ~IsTrue(n)
    /\ [][\A n \in FlagNames :
            /\ (~IsTrue(n) /\ IsTrueNext(n)) => (Calls_("set_true") /\ result'.key = n)
            /\ (Calls_("set_true") /\ result'.key = n) => IsTrueNext(n)
            /\ IsTrue(n) => IsTrueNext(n)
            /\ (Calls_("set_true") /\ result'.key = n /\ IsTrue(n)) => redis' = redis
            /\ (Calls_("is_true") /\ result'.key = n) => result'.returned = IsTrue(n)]_vars

\* is_true has returned True for a flag that was set while the other flag
\* is still false
FlagIsMonotone_Witness ==
    /\ result.method = "is_true"
    /\ result.returned = TRUE
    /\ \E n \in FlagNames : n # result.key /\ ~IsTrue(n)

\* C20: add(v) returns True exactly when v was in the set, and v is in the
\* set afterwards; remove(v) returns True exactly when v was in the set, and
\* v is not in the set afterwards; the length is 0 at first, goes up by one
\* when add puts in a value that was not in the set, down by one when remove
\* takes out one that was, and is left alone by every other call, so it is
\* the number of distinct values added and not removed, the values that
\* contains holds for.
SetReportsPriorMembership ==
    /\ \A n \in SetNames : Length(n) = 0
    /\ [][\A n \in SetNames :
            /\ \A v \in Values :
                  /\ (Calls_("add") /\ result'.key = n /\ result'.value = v) =>
                        /\ result'.returned = Contains(n, v)
                        /\ ContainsNext(n, v)
                        /\ LengthNext(n) = Length(n) + (IF Contains(n, v) THEN 0 ELSE 1)
                  /\ (Calls_("remove") /\ result'.key = n /\ result'.value = v) =>
                        /\ result'.returned = Contains(n, v)
                        /\ ~ContainsNext(n, v)
                        /\ LengthNext(n) = Length(n) - (IF Contains(n, v) THEN 1 ELSE 0)
            /\ ~((Calls_("add") \/ Calls_("remove")) /\ result'.key = n) =>
                  LengthNext(n) = Length(n)
            /\ (Calls_("len") /\ result'.key = n) => result'.returned = Length(n)]_vars
    /\ [](\A n \in SetNames :
            Length(n) = Cardinality({v \in Values : Contains(n, v)}))

\* add has returned True for a value that was in a set of two values
SetReportsPriorMembership_Witness ==
    /\ result.method = "add"
    /\ result.returned = TRUE
    /\ Length(result.key) = 2
    /\ Contains(result.key, result.value)

----------------------------------------------------------------------------
(* The resolver as a function of its arguments *)

\* the maps and the filename set that every call of one resolution shares
Env(emap, c2f, filenames_set) ==
    [expansion_map |-> emap, coord_to_filenames |-> c2f, filenames_set |-> filenames_set]

\* _process_expansion_lines on regions[j..]: st holds the two line sets of
\* the call and the visited set and cache that all calls share; the value is
\* st as the call leaves it
RECURSIVE ProcessExpansionLines(_, _, _, _)
ProcessExpansionLines(regions, j, st, env) ==
    IF j > Len(regions) THEN st
    ELSE LET region == regions[j]
         IN  IF Len(region) < 5
             THEN ProcessExpansionLines(regions, j + 1, st, env)
             ELSE IF RegionKind(region) = REGION_KIND_CODE
             THEN LET added == AddRegionLines(region, st.total_lines, st.covered_lines)
                  IN  ProcessExpansionLines(regions, j + 1,
                          [st EXCEPT !.total_lines = added.total_lines,
                                     !.covered_lines = added.covered_lines], env)
             ELSE IF RegionKind(region) = REGION_KIND_EXPANSION
             THEN LET coords == RegionCoords(region[1], region[2], region[3], region[4])
                      key == ProcessExpansionLinesKey(coords, env.expansion_map,
                                 env.coord_to_filenames, env.filenames_set, st.visited)
                  IN  IF key = NoKey
                      THEN ProcessExpansionLines(regions, j + 1, st, env)
                      ELSE IF key \in DOMAIN st.cache
                      THEN ProcessExpansionLines(regions, j + 1,
                               [st EXCEPT !.total_lines = @ \cup st.cache[key].total_lines,
                                          !.covered_lines = @ \cup st.cache[key].covered_lines,
                                          !.visited = @ \cup {key}], env)
                      ELSE LET nested == ProcessExpansionLines(env.expansion_map[key], 1,
                                             [total_lines |-> {}, covered_lines |-> {},
                                              visited |-> st.visited \cup {key},
                                              cache |-> st.cache], env)
                           IN  ProcessExpansionLines(regions, j + 1,
                                   [total_lines |-> st.total_lines \cup nested.total_lines,
                                    covered_lines |-> st.covered_lines \cup nested.covered_lines,
                                    visited |-> nested.visited,
                                    cache |-> Put(nested.cache, key,
                                                  CachedExpansionLines(nested.total_lines,
                                                                       nested.covered_lines))],
                                   env)
             ELSE ProcessExpansionLines(regions, j + 1, st, env)

\* _process_regions on regions[j..]: st holds the two line sets and the cache
RECURSIVE ProcessRegions(_, _, _, _)
ProcessRegions(regions, j, st, env) ==
    IF j > Len(regions) THEN st
    ELSE LET region == regions[j]
         IN  IF Len(region) < 5
             THEN ProcessRegions(regions, j + 1, st, env)
             ELSE IF RegionKind(region) = REGION_KIND_CODE
             THEN LET added == AddRegionLines(region, st.total_lines, st.covered_lines)
                  IN  ProcessRegions(regions, j + 1,
                          [st EXCEPT !.total_lines = added.total_lines,
                                     !.covered_lines = added.covered_lines], env)
             ELSE IF RegionKind(region) = REGION_KIND_EXPANSION
             THEN LET coords == RegionCoords(region[1], region[2], region[3], region[4])
                      key == ProcessRegionsKey(coords, env.expansion_map,
                                 env.coord_to_filenames, env.filenames_set)
                  IN  IF key = NoKey
                      THEN ProcessRegions(regions, j + 1, st, env)
                      ELSE IF key \in DOMAIN st.cache
                      THEN ProcessRegions(regions, j + 1,
                               [st EXCEPT !.total_lines = @ \cup st.cache[key].total_lines,
                                          !.covered_lines = @ \cup st.cache[key].covered_lines],
                               env)
                      ELSE LET expansion == ProcessExpansionLines(env.expansion_map[key], 1,
                                                [total_lines |-> {}, covered_lines |-> {},
                                                 visited |-> {}, cache |-> st.cache], env)
                           IN  ProcessRegions(regions, j + 1,
                                   [total_lines |-> st.total_lines \cup expansion.total_lines,
                                    covered_lines |-> st.covered_lines \cup expansion.covered_lines,
                                    cache |-> Put(expansion.cache, key,
                                                  CachedExpansionLines(expansion.total_lines,
                                                                       expansion.covered_lines))],
                                   env)
             ELSE ProcessRegions(regions, j + 1, st, env)

\* the result of resolving the target regions of key k from scratch, with an
\* empty cache and a fresh visited set, for a function with these filenames
FromScratch(k, filenames_set) ==
    LET st == ProcessExpansionLines(expansion_map[k], 1,
                  [total_lines |-> {}, covered_lines |-> {}, visited |-> {},
                   cache |-> EmptyDict],
                  Env(expansion_map, coord_to_filenames, filenames_set))
    IN  CachedExpansionLines(st.total_lines, st.covered_lines)

\* the two sets of a function that is resolved alone, with an empty cache,
\* over the given maps
Alone(function, maps) ==
    LET st == ProcessRegions(function["regions"], 1,
                  [total_lines |-> {}, covered_lines |-> {}, cache |-> EmptyDict],
                  Env(maps.expansion_map, maps.coord_to_filenames, FilenamesSet(function)))
    IN  CachedExpansionLines(st.total_lines, st.covered_lines)

\* C21: a cache entry is never replaced by a different value and never
\* removed while the functions of one export object are aggregated; the
\* cache is emptied only when the next export object is entered.
CacheEntriesImmutable ==
    [][~EntersObject =>
          \A k \in DOMAIN expansion_lines_cache :
              /\ k \in DOMAIN expansion_lines_cache'
              /\ expansion_lines_cache'[k] = expansion_lines_cache[k]]_vars

\* C22: the target regions of an expansion key are walked at most once per
\* export object: a walk of a key starts only when the cache has no entry
\* for it, and never while an earlier walk of the same key is still under
\* way (a walk that has ended has left its entry in the cache).
ResolvedOncePerObject ==
    /\ [](pc = "regions" =>
            \A d1, d2 \in 2..Depth : d1 # d2 => stack[d1].key # stack[d2].key)
    /\ [][(pc = "regions" /\ Len(stack') = Depth + 1) =>
            stack'[Depth + 1].key \notin DOMAIN expansion_lines_cache]_vars

\* the functions of the current export object that the aggregation has
\* reached so far
FunctionsSoFar ==
    {CurObj["functions"][j] :
        j \in {i \in 1..Len(CurObj["functions"]) :
                  /\ i <= func_idx
                  /\ "name" \in DOMAIN CurObj["functions"][i]
                  /\ "regions" \in DOMAIN CurObj["functions"][i]}}

\* C23: every cache entry is the complete result for its key: it holds the
\* two sets that resolving the key's target regions from scratch, with an
\* empty cache and a fresh visited set, gives for the filename set of a
\* function that the aggregation of the export object has reached.
CacheEntriesComplete ==
    pc \in {"functions", "regions"} =>
        \A k \in DOMAIN expansion_lines_cache :
            \E function \in FunctionsSoFar :
                expansion_lines_cache[k] = FromScratch(k, FilenamesSet(function))

\* the keys of the expansions that the active calls of
\* _process_expansion_lines are walking
ActiveChain == {stack[d].key : d \in 2..Depth}

\* C24: the visited set holds only keys of expansions in the active
\* recursion chain of the current top-level call, so that a nested expansion
\* is dropped only when its key is an ancestor's: a nested expansion region
\* whose first matching key is not in the chain, such as a macro reached
\* again through a sibling branch, is resolved or served from the cache.
VisitedIsActiveChain ==
    /\ [](pc = "regions" => visited \subseteq ActiveChain)
    /\ [][(pc = "regions" /\ Depth > 1 /\ ~Exhausted(Top)
              /\ IsExpansion(Top.regions[Top.i])
              /\ TopLevelKey(Top.regions[Top.i]) \notin ActiveChain \cup {NoKey}) =>
            LET key == TopLevelKey(Top.regions[Top.i])
            IN  \/ Len(stack') = Depth + 1 /\ stack'[Depth + 1].key = key
                \/ /\ key \in DOMAIN expansion_lines_cache
                   /\ stack'[Depth] = CacheHit(Top, expansion_lines_cache[key])]_vars

\* C25: only the first matching filename is used, at the top level and in
\* nested calls alike: for an expansion region, the first filename listed for
\* its coordinates that is one of the function's filenames and has an entry
\* in the expansion map decides.  Without such a filename the region adds
\* nothing; in a nested call whose visited set holds that key the region adds
\* nothing either and no later filename is tried; otherwise that key is
\* resolved or served from the cache, and no other.
FirstFilenameDecides ==
    [][(pc = "regions" /\ ~Exhausted(Top) /\ IsExpansion(Top.regions[Top.i])) =>
          LET first == TopLevelKey(Top.regions[Top.i])
          IN  IF first = NoKey \/ (Depth > 1 /\ first \in visited)
              THEN stack' = [stack EXCEPT ![Depth] = Advance(Top)]
              ELSE \/ Len(stack') = Depth + 1 /\ stack'[Depth + 1].key = first
                   \/ /\ first \in DOMAIN expansion_lines_cache
                      /\ stack'[Depth] = CacheHit(Top, expansion_lines_cache[first])]_vars

\* the keys that the expansion regions among the target regions of k name
Targets(k) ==
    {ExpansionKeyFromCoords(k[1], RegionCoords(expansion_map[k][j][1], expansion_map[k][j][2],
                                               expansion_map[k][j][3], expansion_map[k][j][4])) :
        j \in {i \in 1..Len(expansion_map[k]) : IsExpansion(expansion_map[k][i])}}

\* the expansions of keys a and b call each other and nothing else
Circular(a, b) == a # b /\ Targets(a) = {b} /\ Targets(b) = {a}

\* C26: on a circular expansion A -> B -> A that is resolved starting from
\* A, the back-edge from B to A contributes nothing: no nested call walks
\* A's target regions again, the sets cached for B are those of B's own code
\* regions, and the result for A holds the lines of the code regions of A
\* and B and no others.
BackEdgeContributesNothing ==
    (pc = "regions" /\ Depth >= 2) =>
        \A b \in DOMAIN expansion_map :
            Circular(stack[2].key, b) =>
                /\ \A d \in 3..Depth : stack[d].key # stack[2].key
                /\ b \in DOMAIN expansion_lines_cache =>
                      expansion_lines_cache[b] =
                          CachedExpansionLines(CodeSpans(expansion_map[b]),
                                               CoveredSpans(expansion_map[b]))
                /\ (Depth = 2 /\ Exhausted(Top)) =>
                      /\ Top.total_lines = CodeSpans(expansion_map[stack[2].key])
                                             \cup CodeSpans(expansion_map[b])
                      /\ Top.covered_lines = CoveredSpans(expansion_map[stack[2].key])
                                               \cup CoveredSpans(expansion_map[b])

\* the expansion regions of the current function whose expansion has a code
\* region among its target regions
ExpansionsWithCode ==
    {j \in 1..Len(CurFunc["regions"]) :
        /\ IsExpansion(CurFunc["regions"][j])
        /\ TopLevelKey(CurFunc["regions"][j]) # NoKey
        /\ \E t \in 1..Len(expansion_map[TopLevelKey(CurFunc["regions"][j])]) :
              IsCode(expansion_map[TopLevelKey(CurFunc["regions"][j])][t])}

EndsTopLevelExpansion ==
    /\ pc = "regions"
    /\ Depth <= 2
    /\ Len(stack') = 1
    /\ stack'[1].i = stack[1].i + 1
    /\ IsExpansion(stack[1].regions[stack[1].i])

CurMaps == [expansion_map |-> expansion_map, coord_to_filenames |-> coord_to_filenames]

\* C28: the cache is a transparent optimisation: the two sets that a
\* function is resolved to with the cache it shares with the earlier
\* functions of its export object are the sets it is resolved to alone, with
\* an empty cache, whatever the earlier functions and their filename lists.
CacheIsTransparent ==
    Resolved =>
        CachedExpansionLines(Top.total_lines, Top.covered_lines) = Alone(CurFunc, CurMaps)

\* the function names no file: its filenames key is missing or its list is
\* empty
Unfiled(function) == Filenames(function) = <<>>

\* the regions of the current function that the innermost call has walked
Walked == SubSeq(Top.regions, 1, Top.i - 1)

\* C29: a function whose filenames list is missing or empty never resolves
\* an expansion: no call of _process_expansion_lines is made for it and no
\* step taken for it changes the cache, its sets are at every moment those
\* of the code regions walked so far, and if it is reported, its record
\* counts the lines of its code regions alone and has the empty list as
\* function_paths.
UnfiledResolvesNoExpansion ==
    /\ []((pc = "regions" /\ Unfiled(CurFunc)) =>
            /\ Depth = 1
            /\ Top.total_lines = CodeSpans(Walked)
            /\ Top.covered_lines = CoveredSpans(Walked))
    /\ [][(pc = "regions" /\ Unfiled(CurFunc)) =>
            /\ expansion_lines_cache' = expansion_lines_cache
            /\ function_coverage' # function_coverage =>
                  function_coverage' =
                      Append(function_coverage,
                             CoveredFunction(CurFunc["name"],
                                             Cardinality(CodeSpans(CurFunc["regions"])),
                                             Cardinality(CoveredSpans(CurFunc["regions"])),
                                             <<>>))]_vars

\* a function without the filenames key was resolved to lines of its own
\* after walking an expansion region whose key the cache holds lines for
UnfiledResolvesNoExpansion_Witness ==
    /\ Resolved
    /\ "filenames" \notin DOMAIN CurFunc
    /\ Top.covered_lines # {}
    /\ \E j \in 1..Len(CurFunc["regions"]) :
          /\ IsExpansion(CurFunc["regions"][j])
          /\ \E k \in DOMAIN expansion_lines_cache :
                /\ k = ExpansionKeyFromCoords("a.c",
                           RegionCoords(CurFunc["regions"][j][1], CurFunc["regions"][j][2],
                                        CurFunc["regions"][j][3], CurFunc["regions"][j][4]))
                /\ expansion_lines_cache[k].total_lines # {}

\* the expansions of the i-th file from its j-th entry on, without the
\* well-formed entries that a later entry of the document shares its
\* filename and coordinates with
RECURSIVE LaterEntriesFrom(_, _)
LaterEntriesFrom(i, j) ==
    IF j > Len(ExpansionsOf(FilesOf(CurObj)[i])) THEN <<>>
    ELSE (IF WellFormed(<<i, j>>) /\ LastWithKeyOf(<<i, j>>) # <<i, j>>
          THEN <<>>
          ELSE <<Entry(<<i, j>>)>>) \o LaterEntriesFrom(i, j + 1)

\* the current export object as if only the later entry of every two with
\* the same filename and coordinates had been present
LaterEntriesOnly ==
    IF "files" \notin DOMAIN CurObj THEN CurObj
    ELSE [CurObj EXCEPT !["files"] =
             [i \in 1..Len(CurObj["files"]) |->
                 IF "expansions" \in DOMAIN CurObj["files"][i]
                 THEN [CurObj["files"][i] EXCEPT !["expansions"] = LaterEntriesFrom(i, 1)]
                 ELSE CurObj["files"][i]]]

\* how often the index lists filename fn under the coordinates c
TimesListed(c, fn) ==
    Cardinality({p \in 1..Len(coord_to_filenames[c]) : coord_to_filenames[c][p] = fn})

\* C30: when a file lists several entries with the same source_region, the
\* expansion map holds the target regions of the last of them and the
\* coordinate index lists the filename once for each of them, and every
\* function is resolved to the sets it is resolved to when each such group
\* of entries is replaced by its last entry.
LaterDuplicateWins ==
    /\ Indexed =>
          \A ij \in WellFormedEntries :
              /\ expansion_map[EntryKey(ij)] = EntryTargets(LastWithKeyOf(ij))
              /\ TimesListed(EntryCoords(ij), EntryFilename(ij)) =
                    Cardinality({other \in WellFormedEntries : EntryKey(other) = EntryKey(ij)})
    /\ Resolved =>
          CachedExpansionLines(Top.total_lines, Top.covered_lines) =
              Alone(CurFunc, BuildExpansionCoverageMap(LaterEntriesOnly))

\* a function was resolved through a key that the file lists two entries
\* for, with different target regions: the index lists the filename twice,
\* and the function has the lines of the second entry and not those of the
\* first
LaterDuplicateWins_Witness ==
    /\ Resolved
    /\ {<<1, 1>>, <<1, 2>>} \subseteq WellFormedEntries
    /\ EntryKey(<<1, 1>>) = EntryKey(<<1, 2>>)
    /\ TimesListed(EntryCoords(<<1, 1>>), EntryFilename(<<1, 1>>)) = 2
    /\ CodeSpans(EntryTargets(<<1, 2>>)) # {}
    /\ CodeSpans(EntryTargets(<<1, 2>>)) \subseteq Top.total_lines
    /\ CodeSpans(EntryTargets(<<1, 1>>)) \cap Top.total_lines = {}

====
